---- MODULE Spec2Model ----
(***************************************************************************)
(* Model of financial_assistant.py: the daily-limit calculation and the   *)
(* daily_budgets record lifecycle.                                         *)
(*                                                                         *)
(* Dates are day numbers (ISO date strings compare like the days they      *)
(* denote).  Amounts are integer cents.  A nullable column holds <<>> for  *)
(* NULL and <<v>> for the value v.  No statement reads the id of a         *)
(* pay_periods, recurring_expenses or transactions row, so these tables    *)
(* are bags of rows; savings_goals and daily_budgets are kept in id order, *)
(* and the index of a savings_goals row is its AUTOINCREMENT id.           *)
(***************************************************************************)
EXTENDS Integers, Sequences, FiniteSets, Bags, TLC

VARIABLES today, pay_periods, savings_goals, recurring_expenses,
          transactions, daily_budgets, response, connections

vars == <<today, pay_periods, savings_goals, recurring_expenses,
          transactions, daily_budgets, response, connections>>

\* ---------------------------------------------------------------- bounds
\* Days the requests of Spec are served on, and the dates they name.
MaxDay == 2
\* Rows stored in pay_periods, savings_goals, recurring_expenses and
\* transactions together.
MaxRows == 3
\* Rows stored, and being stored by requests in flight, in SpecConc.
MaxConcRows == 2
\* Dates of the tables SpecCalc evaluates calculate_daily_limit on.
MaxCalcDay == 3
\* Rows of the tables SpecCalc evaluates calculate_daily_limit on.
MaxCalcRows == 4

Days == 1..MaxDay
CalcDays == 1..MaxCalcDay
PeriodAmounts == {7}
TxAmounts == {-1, 2}
BillAmounts == {3}
Contributions == {4}
Limits == {-1, 0, 5}
TransactionTypes == {"expense", "savings_contribution"}
\* The threads of the server that serve requests at the same time.
Workers == {1, 2}
NULL == <<>>
GoalIds == {NULL, <<1>>, <<2>>}

\* ------------------------------------------------------------- SQL helpers
Row(r) == SetToBag({r})

\* COALESCE(SUM(amount), 0) over the rows of a table that a WHERE selected
RECURSIVE COALESCE_SUM_amount(_, _)
COALESCE_SUM_amount(table, rows) ==
    IF rows = {} THEN 0
    ELSE LET r == CHOOSE x \in rows : TRUE
         IN r.amount * table[r] + COALESCE_SUM_amount(table, rows \ {r})

RECURSIVE SUM_monthly_contribution(_)
SUM_monthly_contribution(goals) ==
    IF goals = <<>> THEN 0
    ELSE Head(goals).monthly_contribution + SUM_monthly_contribution(Tail(goals))

\* A lookup by date that matches no stored row (the dates compared are not
\* in the format the rows were stored with).
existing_budget_none(budgets, d) == {}

\* SELECT id FROM daily_budgets WHERE date = ?
existing_budget(budgets, d) == {i \in DOMAIN budgets : budgets[i].date = d}

\* date DATE UNIQUE NOT NULL: an INSERT is refused when a row has the date
\* A daily_budgets table whose date column is not declared UNIQUE.
UNIQUE_date_absent(budgets, d) == TRUE

UNIQUE_date(budgets, d) == existing_budget(budgets, d) = {}

\* -------------------------------------------------- calculate_daily_limit
\* ORDER BY start_date DESC LIMIT 1: a row with the greatest start_date among
\* those covering today; rows with equal start_date are in unspecified order.
\* A selection that forgets the start_date <= today condition.
current_period_no_start ==
    LET covering == {p \in DOMAIN pay_periods : p.end_date >= today}
    IN {p \in covering : \A q \in covering : q.start_date <= p.start_date}

\* A selection that forgets the end_date >= today condition.
current_period_no_end ==
    LET covering == {p \in DOMAIN pay_periods : p.start_date <= today}
    IN {p \in covering : \A q \in covering : q.start_date <= p.start_date}

\* A selection ordered by start_date ASC: the earliest covering period.
current_period_earliest ==
    LET covering == {p \in DOMAIN pay_periods :
                        p.start_date <= today /\ p.end_date >= today}
    IN {p \in covering : \A q \in covering : q.start_date >= p.start_date}

current_period ==
    LET covering == {p \in DOMAIN pay_periods :
                        p.start_date <= today /\ p.end_date >= today}
    IN {p \in covering : \A q \in covering : q.start_date <= p.start_date}

\* A day count that leaves today out.
days_remaining_exclusive(p) == p.end_date - today

days_remaining(p) == (p.end_date - today) + 1

total_spent(p) ==
    COALESCE_SUM_amount(transactions,
        {t \in DOMAIN transactions : /\ t.date >= p.start_date
                                     /\ t.date <= today
                                     /\ t.transaction_type = "expense"})

upcoming_bills(p) ==
    COALESCE_SUM_amount(recurring_expenses,
        {r \in DOMAIN recurring_expenses :
            r.next_due >= today /\ r.next_due <= p.end_date})

planned_savings == SUM_monthly_contribution(savings_goals)

available_for_spending(p) ==
    (p.amount - total_spent(p)) - upcoming_bills(p) - planned_savings

\* A limit computed without the max(0, ...) clamp.
max0_unclamped(x) == x

max0(x) == IF x > 0 THEN x ELSE 0

\* round(x / d, 2) for x >= 0 cents and d > 0: the nearest cent.  The quotient
\* is a binary float, so one lying exactly between two cents goes to either
\* neighbour, as its float representation falls (round(0.015, 2) = 0.01,
\* round(0.025, 2) = 0.03).
round2(x, d) ==
    LET q == x \div d
        r == x % d
    IN IF 2 * r < d THEN {q}
       ELSE IF 2 * r > d THEN {q + 1}
       ELSE {q, q + 1}

daily_limit(p) ==
    IF days_remaining(p) <= 0 THEN {0}
    ELSE round2(max0(available_for_spending(p)), days_remaining(p))

\* The values calculate_daily_limit() can return in the committed state.
calculate_daily_limit ==
    IF current_period = {} THEN {0}
    ELSE UNION {daily_limit(p) : p \in current_period}

\* ----------------------------------------------------------------- state
\* What a request answers: "ok" (a page, a redirect, {"success": True}) or
\* "error" (an exception left the handler), and for the dashboard the
\* suggested_limit it renders.
Response(s, b) == [status |-> s, body |-> b]

stored_rows ==
    BagCardinality(pay_periods) + Len(savings_goals)
        + BagCardinality(recurring_expenses) + BagCardinality(transactions)

\* A worker that serves no request holds no connection.
closed == [pc |-> "closed"]

Init ==
    /\ today = 1
    /\ pay_periods = EmptyBag
    /\ savings_goals = <<>>
    /\ recurring_expenses = EmptyBag
    /\ transactions = EmptyBag
    /\ daily_budgets = <<>>
    /\ response = Response("ok", NULL)
    /\ connections = [w \in Workers |-> closed]

\* date.today() moves on between requests.
NextDay ==
    /\ today < MaxDay
    /\ today' = today + 1
    /\ UNCHANGED <<pay_periods, savings_goals, recurring_expenses,
                   transactions, daily_budgets, response, connections>>

\* --------------------------------------------------------------- handlers
\* POST /pay-periods
pay_periods_post(amount, start_date, end_date) ==
    /\ stored_rows < MaxRows
    /\ pay_periods' = pay_periods (+)
           Row([amount |-> amount, start_date |-> start_date,
                end_date |-> end_date])
    /\ response' = Response("ok", NULL)
    /\ UNCHANGED <<connections, today, savings_goals, recurring_expenses, transactions,
                   daily_budgets>>

\* POST /savings-goals: current_amount takes its DEFAULT 0
savings_goals_post(monthly_contribution) ==
    /\ stored_rows < MaxRows
    /\ savings_goals' = Append(savings_goals,
           [current_amount |-> 0, monthly_contribution |-> monthly_contribution])
    /\ response' = Response("ok", NULL)
    /\ UNCHANGED <<connections, today, pay_periods, recurring_expenses, transactions,
                   daily_budgets>>

\* POST /recurring-expenses
recurring_expenses_post(amount, next_due) ==
    /\ stored_rows < MaxRows
    /\ recurring_expenses' = recurring_expenses (+)
           Row([amount |-> amount, next_due |-> next_due])
    /\ response' = Response("ok", NULL)
    /\ UNCHANGED <<connections, today, pay_periods, savings_goals, transactions,
                   daily_budgets>>

\* A reconfirmation that replaces the row (INSERT OR REPLACE) instead of
\* updating its confirmed_limit.
REPLACE_daily_budget(budgets, limit, d) ==
    [i \in DOMAIN budgets |->
        IF budgets[i].date = d
        THEN [date |-> d, allocated_limit |-> limit,
              confirmed_limit |-> <<limit>>, actual_spent |-> 0]
        ELSE budgets[i]]

\* UPDATE daily_budgets SET confirmed_limit = ? WHERE date = ?
UPDATE_confirmed_limit(budgets, limit, d) ==
    [i \in DOMAIN budgets |->
        IF budgets[i].date = d
        THEN [budgets[i] EXCEPT !.confirmed_limit = <<limit>>]
        ELSE budgets[i]]

\* UPDATE daily_budgets SET actual_spent = (SELECT COALESCE(SUM(amount), 0)
\*   FROM transactions WHERE date = ? AND transaction_type = "expense")
\*   WHERE date = ?
UPDATE_actual_spent(budgets, txs, d) ==
    [i \in DOMAIN budgets |->
        IF budgets[i].date = d
        THEN [budgets[i] EXCEPT !.actual_spent =
                 COALESCE_SUM_amount(txs,
                     {t \in DOMAIN txs :
                         t.date = d /\ t.transaction_type = "expense"})]
        ELSE budgets[i]]

\* The goal update without its WHERE id = ? clause.
UPDATE_current_amount_all(goals, amount, goal_id) ==
    [i \in DOMAIN goals |->
        [goals[i] EXCEPT !.current_amount = @ + amount]]

\* UPDATE savings_goals SET current_amount = current_amount + ? WHERE id = ?
UPDATE_current_amount(goals, amount, goal_id) ==
    [i \in DOMAIN goals |->
        IF i = goal_id
        THEN [goals[i] EXCEPT !.current_amount = @ + amount]
        ELSE goals[i]]

\* POST /confirm-daily-limit
confirm_daily_limit(limit) ==
    /\ IF existing_budget(daily_budgets, today) # {}
       THEN /\ daily_budgets' = UPDATE_confirmed_limit(daily_budgets, limit, today)
            /\ response' = Response("ok", NULL)
       ELSE IF UNIQUE_date(daily_budgets, today)
       THEN /\ daily_budgets' = Append(daily_budgets,
                   [date |-> today, allocated_limit |-> limit,
                    confirmed_limit |-> <<limit>>, actual_spent |-> 0])
            /\ response' = Response("ok", NULL)
       ELSE /\ daily_budgets' = daily_budgets
            /\ response' = Response("error", NULL)
    /\ UNCHANGED <<connections, today, pay_periods, savings_goals, recurring_expenses,
                   transactions>>

\* An insert that skips a row the table already holds (INSERT OR IGNORE
\* over a key of all columns).
INSERT_transactions_once(txs, transaction_date, amount, transaction_type) ==
    LET row == [date |-> transaction_date, amount |-> amount,
                transaction_type |-> transaction_type]
    IN IF BagIn(row, txs) THEN txs ELSE txs (+) Row(row)

\* INSERT INTO transactions (date, amount, category, description,
\*   transaction_type) VALUES (?, ?, ?, ?, ?)
INSERT_transactions(txs, transaction_date, amount, transaction_type) ==
    txs (+) Row([date |-> transaction_date, amount |-> amount,
                 transaction_type |-> transaction_type])

\* The budget update taken for an expense of any date.
expense_any_day(transaction_type, transaction_date) ==
    transaction_type = "expense"

\* transaction_type == "expense" and transaction_date == date.today().isoformat()
expense_for_today(transaction_type, transaction_date) ==
    transaction_type = "expense" /\ transaction_date = today

\* POST /add-transaction.  goal_id is the form field: NULL when it is absent
\* or empty.  calculate_daily_limit() reads through a connection of its own,
\* so it sees the committed tables, without the row this request inserted.
add_transaction(transaction_date, amount, transaction_type, goal_id) ==
    LET txs == INSERT_transactions(transactions, transaction_date, amount,
                                   transaction_type)
        for_today == expense_for_today(transaction_type, transaction_date)
        missing == existing_budget(daily_budgets, transaction_date) = {}
    IN /\ stored_rows < MaxRows
       /\ \E suggested_limit \in calculate_daily_limit :
            LET inserted ==
                    IF for_today /\ missing
                    THEN Append(daily_budgets,
                             [date |-> transaction_date,
                              allocated_limit |-> suggested_limit,
                              confirmed_limit |-> NULL, actual_spent |-> 0])
                    ELSE daily_budgets
            IN IF for_today /\ missing
                  /\ ~UNIQUE_date(daily_budgets, transaction_date)
               THEN /\ UNCHANGED <<transactions, daily_budgets, savings_goals>>
                    /\ response' = Response("error", NULL)
               ELSE /\ transactions' = txs
                    /\ daily_budgets' =
                           IF for_today
                           THEN UPDATE_actual_spent(inserted, txs, transaction_date)
                           ELSE daily_budgets
                    /\ savings_goals' =
                           IF transaction_type = "savings_contribution"
                              /\ goal_id # NULL
                           THEN UPDATE_current_amount(savings_goals, amount,
                                                      goal_id[1])
                           ELSE savings_goals
                    /\ response' = Response("ok", NULL)
       /\ UNCHANGED <<connections, today, pay_periods, recurring_expenses>>

\* daily_budget["confirmed_limit"] or daily_budget["allocated_limit"]
effective_limit(row) ==
    IF row.confirmed_limit # NULL /\ row.confirmed_limit[1] # 0
    THEN row.confirmed_limit[1]
    ELSE row.allocated_limit

\* GET /: the body is suggested_limit; the division by the effective limit
\* raises ZeroDivisionError when that limit is 0.
dashboard ==
    /\ IF existing_budget(daily_budgets, today) # {}
       THEN LET row == daily_budgets[
                    CHOOSE i \in existing_budget(daily_budgets, today) : TRUE]
            IN response' = IF effective_limit(row) = 0
                           THEN Response("error", NULL)
                           ELSE Response("ok", <<0>>)
       ELSE \E suggested_limit \in calculate_daily_limit :
                response' = Response("ok", <<suggested_limit>>)
    /\ UNCHANGED <<connections, today, pay_periods, savings_goals, recurring_expenses,
                   transactions, daily_budgets>>

Next ==
    \/ NextDay
    \/ \E a \in PeriodAmounts, s \in Days, e \in Days : pay_periods_post(a, s, e)
    \/ \E c \in Contributions : savings_goals_post(c)
    \/ \E a \in BillAmounts, d \in Days : recurring_expenses_post(a, d)
    \/ \E l \in Limits : confirm_daily_limit(l)
    \/ \E d \in Days, a \in TxAmounts, t \in TransactionTypes, g \in GoalIds :
           add_transaction(d, a, t, g)
    \/ dashboard

Spec == Init /\ [][Next]_vars

\* ------------------------------------------- calculate_daily_limit alone
\* The tables calculate_daily_limit can find: any rows, MaxCalcRows together,
\* dated within CalcDays, on any day of CalcDays, before a daily_budgets row
\* exists; the dashboard then calls it.
RECURSIVE BagsOfSize(_, _)
BagsOfSize(rows, n) ==
    IF n = 0 THEN {EmptyBag}
    ELSE {b (+) Row(r) : b \in BagsOfSize(rows, n - 1), r \in rows}

PeriodRows ==
    [amount : PeriodAmounts, start_date : CalcDays, end_date : CalcDays]
BillRows == [amount : BillAmounts, next_due : CalcDays]
TxRows == [date : CalcDays, amount : TxAmounts,
           transaction_type : TransactionTypes]
GoalRows == [current_amount : {0}, monthly_contribution : Contributions]

InitCalc ==
    /\ today \in CalcDays
    /\ \E np \in 0..MaxCalcRows :
         \E ng \in 0..(MaxCalcRows - np) :
           \E nb \in 0..(MaxCalcRows - np - ng) :
             \E nt \in 0..(MaxCalcRows - np - ng - nb) :
               /\ pay_periods \in BagsOfSize(PeriodRows, np)
               /\ savings_goals \in [1..ng -> GoalRows]
               /\ recurring_expenses \in BagsOfSize(BillRows, nb)
               /\ transactions \in BagsOfSize(TxRows, nt)
    /\ daily_budgets = <<>>
    /\ response = Response("ok", NULL)
    /\ connections = [w \in Workers |-> closed]

NextCalc == dashboard

SpecCalc == InitCalc /\ [][NextCalc]_vars

\* ------------------------------------------------- concurrent requests
\* The limits and amounts the concurrent requests carry; no savings goal is
\* stored while they run, so they name none.
ConcLimits == {0, 5}
ConcAmounts == {2}

\* The threaded server runs a handler per request, each on a connection of
\* its own (get_db), one SQL statement at a time.  A connection's first
\* INSERT or UPDATE opens a transaction and takes the database's write
\* lock; what it writes stays in its own view of the tables until commit.
\* A SELECT outside a transaction reads the committed tables.
in_transaction(c) ==
    c.pc \in {"confirm_commit", "add_select", "add_create", "add_update",
              "add_goal", "add_commit"}

write_lock_free(w) ==
    \A v \in Workers \ {w} : ~in_transaction(connections[v])

in_flight ==
    Cardinality({w \in Workers : connections[w].pc \in {"add_insert"}
                                 \/ in_transaction(connections[w])})

\* The statement ends a request: the connection is dropped with what it
\* has not committed.
raise(w) ==
    /\ connections' = [connections EXCEPT ![w] = closed]
    /\ response' = Response("error", NULL)
    /\ UNCHANGED <<today, pay_periods, savings_goals, recurring_expenses,
                   transactions, daily_budgets>>

goto(w, c) ==
    /\ connections' = [connections EXCEPT ![w] = c]
    /\ UNCHANGED <<today, pay_periods, savings_goals, recurring_expenses,
                   transactions, daily_budgets, response>>

\* POST /confirm-daily-limit arrives: limit and today are read.
confirm_daily_limit_begin(w, limit) ==
    /\ connections[w].pc = "closed"
    /\ goto(w, [pc |-> "confirm_select", limit |-> limit, today |-> today])

\* existing = SELECT id FROM daily_budgets WHERE date = today
confirm_daily_limit_select(w) ==
    LET c == connections[w]
    IN /\ c.pc = "confirm_select"
       /\ goto(w, [pc |-> "confirm_write", limit |-> c.limit,
                   today |-> c.today,
                   existing |-> existing_budget(daily_budgets, c.today) # {}])

\* if existing: UPDATE ... else: INSERT ...
confirm_daily_limit_write(w) ==
    LET c == connections[w]
    IN /\ c.pc = "confirm_write"
       /\ write_lock_free(w)
       /\ IF c.existing
          THEN goto(w, [pc |-> "confirm_commit",
                        txs |-> transactions, goals |-> savings_goals,
                        budgets |-> UPDATE_confirmed_limit(daily_budgets,
                                                           c.limit, c.today)])
          ELSE IF UNIQUE_date(daily_budgets, c.today)
          THEN goto(w, [pc |-> "confirm_commit",
                        txs |-> transactions, goals |-> savings_goals,
                        budgets |-> Append(daily_budgets,
                                       [date |-> c.today,
                                        allocated_limit |-> c.limit,
                                        confirmed_limit |-> <<c.limit>>,
                                        actual_spent |-> 0])])
          ELSE raise(w)

\* POST /add-transaction arrives: the form is read.
add_transaction_begin(w, transaction_date, amount, transaction_type, goal_id) ==
    /\ connections[w].pc = "closed"
    /\ stored_rows + in_flight < MaxConcRows
    /\ goto(w, [pc |-> "add_insert", transaction_date |-> transaction_date,
                amount |-> amount, transaction_type |-> transaction_type,
                goal_id |-> goal_id])

\* INSERT INTO transactions ...
add_transaction_insert(w) ==
    LET c == connections[w]
    IN /\ c.pc = "add_insert"
       /\ write_lock_free(w)
       /\ goto(w, [c EXCEPT !.pc = "add_select"] @@
                  [txs |-> INSERT_transactions(transactions,
                              c.transaction_date, c.amount, c.transaction_type),
                   budgets |-> daily_budgets, goals |-> savings_goals])

\* if expense for today: existing_budget = SELECT id FROM daily_budgets ...
add_transaction_select(w) ==
    LET c == connections[w]
    IN /\ c.pc = "add_select"
       /\ goto(w, [c EXCEPT !.pc =
              IF ~expense_for_today(c.transaction_type, c.transaction_date)
              THEN "add_goal"
              ELSE IF existing_budget(c.budgets, c.transaction_date) = {}
              THEN "add_create" ELSE "add_update"])

\* suggested_limit = calculate_daily_limit(); INSERT INTO daily_budgets ...
add_transaction_create(w) ==
    LET c == connections[w]
    IN /\ c.pc = "add_create"
       /\ IF UNIQUE_date(c.budgets, c.transaction_date)
          THEN \E suggested_limit \in calculate_daily_limit :
                 goto(w, [c EXCEPT !.pc = "add_update",
                                   !.budgets = Append(@,
                                       [date |-> c.transaction_date,
                                        allocated_limit |-> suggested_limit,
                                        confirmed_limit |-> NULL,
                                        actual_spent |-> 0])])
          ELSE raise(w)

\* UPDATE daily_budgets SET actual_spent = (SELECT ...) WHERE date = ?
add_transaction_update(w) ==
    LET c == connections[w]
    IN /\ c.pc = "add_update"
       /\ goto(w, [c EXCEPT !.pc = "add_goal",
                            !.budgets = UPDATE_actual_spent(@, c.txs,
                                                            c.transaction_date)])

\* if savings_contribution and goal_id: UPDATE savings_goals ...
add_transaction_goal(w) ==
    LET c == connections[w]
    IN /\ c.pc = "add_goal"
       /\ goto(w, [c EXCEPT !.pc = "add_commit",
                            !.goals =
              IF c.transaction_type = "savings_contribution" /\ c.goal_id # NULL
              THEN UPDATE_current_amount(@, c.amount, c.goal_id[1])
              ELSE @])

\* conn.commit(); conn.close()
commit(w) ==
    LET c == connections[w]
    IN /\ c.pc \in {"confirm_commit", "add_commit"}
       /\ transactions' = c.txs
       /\ daily_budgets' = c.budgets
       /\ savings_goals' = c.goals
       /\ connections' = [connections EXCEPT ![w] = closed]
       /\ response' = Response("ok", NULL)
       /\ UNCHANGED <<today, pay_periods, recurring_expenses>>

\* A statement that writes waits for the write lock; when the connection's
\* timeout passes first, it raises "database is locked".
database_is_locked(w) ==
    /\ connections[w].pc \in {"confirm_write", "add_insert"}
    /\ ~write_lock_free(w)
    /\ raise(w)

\* POST /pay-periods, served whole once it has the write lock.
pay_periods_post_locked(amount, start_date, end_date) ==
    /\ \A w \in Workers : write_lock_free(w)
    /\ stored_rows + in_flight < MaxConcRows
    /\ pay_periods_post(amount, start_date, end_date)

NextConc ==
    \/ NextDay
    \/ \E a \in PeriodAmounts, s \in Days, e \in Days :
           pay_periods_post_locked(a, s, e)
    \/ \E w \in Workers, l \in ConcLimits : confirm_daily_limit_begin(w, l)
    \/ \E w \in Workers : confirm_daily_limit_select(w)
    \/ \E w \in Workers : confirm_daily_limit_write(w)
    \/ \E w \in Workers, d \in Days, a \in ConcAmounts, t \in TransactionTypes :
           add_transaction_begin(w, d, a, t, NULL)
    \/ \E w \in Workers : add_transaction_insert(w)
    \/ \E w \in Workers : add_transaction_select(w)
    \/ \E w \in Workers : add_transaction_create(w)
    \/ \E w \in Workers : add_transaction_update(w)
    \/ \E w \in Workers : add_transaction_goal(w)
    \/ \E w \in Workers : commit(w)
    \/ \E w \in Workers : database_is_locked(w)

SpecConc == Init /\ [][NextConc]_vars

\* ================================================================ claims
Abs(x) == IF x < 0 THEN -x ELSE x

\* The sum of amount over the rows of a table that satisfy a condition,
\* counted with their multiplicity.
RECURSIVE Total(_, _)
Total(table, rows) ==
    IF rows = {} THEN 0
    ELSE LET r == CHOOSE x \in rows : TRUE
         IN CopiesIn(r, table) * r.amount + Total(table, rows \ {r})

Expenses(from, to) ==
    Total(transactions,
          {t \in BagToSet(transactions) :
              t.transaction_type = "expense" /\ from <= t.date /\ t.date <= to})

BillsDue(from, to) ==
    Total(recurring_expenses,
          {r \in BagToSet(recurring_expenses) :
              from <= r.next_due /\ r.next_due <= to})

RECURSIVE Contributed(_)
Contributed(n) ==
    IF n = 0 THEN 0
    ELSE savings_goals[n].monthly_contribution + Contributed(n - 1)

Covers(p) == p.start_date <= today /\ today <= p.end_date

\* What the dashboard rendered as suggested_limit, if it rendered one.
Rendered == IF response.body = NULL THEN {} ELSE {response.body[1]}

\* C3: calculate_daily_limit never returns a negative number, whatever the
\* pay periods, transactions, recurring expenses and savings goals are.
C3_NeverNegative ==
    \A v \in calculate_daily_limit \cup Rendered : v >= 0

\* The dashboard rendered a suggestion while the bills, savings and spending
\* of the selected period exceed its amount.
C3_Witness ==
    /\ Rendered = {0}
    /\ \E p \in BagToSet(pay_periods) :
          /\ Covers(p)
          /\ p.amount - Expenses(p.start_date, today)
                - BillsDue(today, p.end_date) - Contributed(Len(savings_goals)) < 0

\* C4: with a pay period selected, the result is
\* max(0, (amount - total_spent - upcoming_bills - planned_savings) / days_remaining)
\* rounded to the cent, total_spent being the expenses dated in
\* [start_date, today], upcoming_bills the recurring expenses due in
\* [today, end_date], planned_savings the monthly_contribution of all goals and
\* days_remaining = (end_date - today) + 1; with no transactions, bills or
\* goals it is amount / days_remaining rounded to the cent.
C4_Formula ==
    current_period # {} =>
        \A v \in calculate_daily_limit \cup Rendered :
            \E p \in current_period :
                LET days == (p.end_date - today) + 1
                    available == p.amount - Expenses(p.start_date, today)
                                    - BillsDue(today, p.end_date)
                                    - Contributed(Len(savings_goals))
                    exact == IF available > 0 THEN available ELSE 0
                IN /\ days >= 1
                   /\ 2 * Abs(v * days - exact) <= days
                   /\ (/\ transactions = EmptyBag
                       /\ recurring_expenses = EmptyBag
                       /\ savings_goals = <<>>)
                      => 2 * Abs(v * days - p.amount) <= days

\* A suggestion was rendered for a period with several days left, an expense
\* in its window, a bill due in it and a savings goal, money being left over.
C4_Witness ==
    /\ Rendered # {}
    /\ \E p \in current_period :
          /\ p.end_date > today
          /\ Expenses(p.start_date, today) # 0
          /\ BillsDue(today, p.end_date) # 0
          /\ Contributed(Len(savings_goals)) # 0
          /\ p.amount - Expenses(p.start_date, today)
                - BillsDue(today, p.end_date) - Contributed(Len(savings_goals)) > 0

\* C5: when today lies outside the range of every stored pay period (none
\* stored, or the latest one over), calculate_daily_limit returns 0 whatever
\* the transactions, bills and goals are.
C5_NoPeriodZero ==
    (\A p \in BagToSet(pay_periods) : ~Covers(p)) =>
        calculate_daily_limit \cup Rendered = {0}

\* A suggestion of 0 was rendered on a day after the end of the only period,
\* with transactions stored.
C5_Witness ==
    /\ Rendered = {0}
    /\ pay_periods # EmptyBag
    /\ \A p \in BagToSet(pay_periods) : p.start_date <= p.end_date /\ p.end_date < today
    /\ transactions # EmptyBag

\* C1: the daily_budgets table never holds two rows of one date, whatever
\* requests were served on whatever days.
C1_OnePerDate ==
    \A i, j \in DOMAIN daily_budgets :
        daily_budgets[i].date = daily_budgets[j].date => i = j

\* Two days each have their row, one made by a confirmation and one by an
\* expense, and the requests that made them were repeated on their day.
C1_Witness ==
    /\ Len(daily_budgets) = 2
    /\ daily_budgets[1].confirmed_limit # NULL
    /\ daily_budgets[1].confirmed_limit # <<daily_budgets[1].allocated_limit>>
    /\ daily_budgets[2].confirmed_limit = NULL
    /\ \E t \in BagToSet(transactions) :
          /\ t.date = daily_budgets[2].date
          /\ t.transaction_type = "expense"
          /\ CopiesIn(t, transactions) = 2

\* C2: every daily_budgets row has actual_spent equal to the sum of the
\* expense transactions of its date.
C2_ActualSpentIsSum ==
    \A i \in DOMAIN daily_budgets :
        daily_budgets[i].actual_spent =
            Expenses(daily_budgets[i].date, daily_budgets[i].date)

\* C6: a confirmation on a day that has its row sets that row's
\* confirmed_limit to the amount given and changes nothing else of any row.
C6_Reconfirm ==
    [][\A l \in Limits :
          (confirm_daily_limit(l) /\ existing_budget(daily_budgets, today) # {})
          => /\ Len(daily_budgets') = Len(daily_budgets)
             /\ \A i \in DOMAIN daily_budgets :
                   /\ daily_budgets'[i].date = daily_budgets[i].date
                   /\ daily_budgets'[i].allocated_limit
                         = daily_budgets[i].allocated_limit
                   /\ daily_budgets'[i].actual_spent
                         = daily_budgets[i].actual_spent
                   /\ daily_budgets'[i].confirmed_limit =
                         IF daily_budgets[i].date = today
                         THEN <<l>> ELSE daily_budgets[i].confirmed_limit]_vars

\* A row made by a confirmation (no expense is stored for its date) holds a
\* confirmed_limit that differs from its allocated_limit: it was reconfirmed.
C6_Witness ==
    \E i \in DOMAIN daily_budgets :
        /\ daily_budgets[i].confirmed_limit # NULL
        /\ daily_budgets[i].confirmed_limit # <<daily_budgets[i].allocated_limit>>
        /\ \A t \in BagToSet(transactions) : t.transaction_type # "expense"

C7_Created == Len(daily_budgets') > Len(daily_budgets)

C7_Newest == daily_budgets'[Len(daily_budgets')]

\* C7: rows of daily_budgets are never removed or re-dated; a row appears
\* only for today, when today has none, and by a confirmation or by an
\* expense dated today; after either request today has its row; the request
\* that finds none makes it (a confirmation with allocated_limit =
\* confirmed_limit = amount, an expense with confirmed_limit NULL) and the one
\* that finds it leaves the row's other columns as they are.
C7_Lifecycle ==
    [][/\ Len(daily_budgets') >= Len(daily_budgets)
       /\ \A i \in DOMAIN daily_budgets :
             daily_budgets'[i].date = daily_budgets[i].date
       /\ C7_Created =>
             /\ Len(daily_budgets') = Len(daily_budgets) + 1
             /\ C7_Newest.date = today
             /\ \A i \in DOMAIN daily_budgets : daily_budgets[i].date # today
             /\ \/ \E l \in Limits : confirm_daily_limit(l)
                \/ \E a \in TxAmounts, g \in GoalIds :
                      add_transaction(today, a, "expense", g)
       /\ \A l \in Limits :
             confirm_daily_limit(l) =>
                IF \E i \in DOMAIN daily_budgets : daily_budgets[i].date = today
                THEN /\ ~C7_Created
                     /\ \A i \in DOMAIN daily_budgets :
                           /\ daily_budgets'[i].allocated_limit
                                 = daily_budgets[i].allocated_limit
                           /\ daily_budgets'[i].actual_spent
                                 = daily_budgets[i].actual_spent
                ELSE /\ C7_Created
                     /\ C7_Newest = [date |-> today, allocated_limit |-> l,
                                     confirmed_limit |-> <<l>>,
                                     actual_spent |-> 0]
       /\ \A a \in TxAmounts, g \in GoalIds :
             add_transaction(today, a, "expense", g) =>
                IF \E i \in DOMAIN daily_budgets : daily_budgets[i].date = today
                THEN /\ ~C7_Created
                     /\ \A i \in DOMAIN daily_budgets :
                           /\ daily_budgets'[i].allocated_limit
                                 = daily_budgets[i].allocated_limit
                           /\ daily_budgets'[i].confirmed_limit
                                 = daily_budgets[i].confirmed_limit
                ELSE /\ C7_Created
                     /\ C7_Newest.confirmed_limit = NULL]_vars

\* The first day's row was made by an expense and then confirmed, the second
\* day's by a confirmation and then spent against.
C7_Witness ==
    /\ Len(daily_budgets) = 2
    /\ daily_budgets[1].confirmed_limit # NULL
    /\ daily_budgets[1].confirmed_limit # <<daily_budgets[1].allocated_limit>>
    /\ daily_budgets[1].actual_spent # 0
    /\ BagCardinality(transactions) = 2
    /\ daily_budgets[2].confirmed_limit = <<daily_budgets[2].allocated_limit>>
    /\ daily_budgets[2].allocated_limit = -1
    /\ daily_budgets[2].actual_spent # 0

\* C8: every add_transaction request leaves the transactions table one row
\* larger, the added row holding the fields given, every row stored before
\* still there.
C8_Appends ==
    [][\A d \in Days, a \in TxAmounts, t \in TransactionTypes, g \in GoalIds :
          add_transaction(d, a, t, g) =>
             LET row == [date |-> d, amount |-> a, transaction_type |-> t]
             IN /\ BagCardinality(transactions')
                      = BagCardinality(transactions) + 1
                /\ CopiesIn(row, transactions')
                      = CopiesIn(row, transactions) + 1
                /\ \A r \in BagToSet(transactions) :
                      CopiesIn(r, transactions') >= CopiesIn(r, transactions)]_vars

\* The log holds three rows: twice the same expense, and a contribution of a
\* negative amount dated on another day, recorded with no goal stored.
C8_Witness ==
    /\ BagCardinality(transactions) = 3
    /\ savings_goals = <<>>
    /\ \E t, u \in BagToSet(transactions) :
          /\ t.transaction_type = "expense"
          /\ CopiesIn(t, transactions) = 2
          /\ u.transaction_type = "savings_contribution"
          /\ u.amount < 0
          /\ u.date # t.date

\* C9: add_transaction changes savings_goals only for a savings_contribution
\* with a goal id that names a stored goal: that goal's current_amount grows
\* by the amount and nothing else of any goal changes; otherwise no goal
\* changes; in every case the row is logged and the request answers normally.
C9_GoalUpdate ==
    [][\A d \in Days, a \in TxAmounts, t \in TransactionTypes, g \in GoalIds :
          add_transaction(d, a, t, g) =>
             /\ response'.status = "ok"
             /\ BagCardinality(transactions') = BagCardinality(transactions) + 1
             /\ Len(savings_goals') = Len(savings_goals)
             /\ \A i \in DOMAIN savings_goals :
                   /\ savings_goals'[i].monthly_contribution
                         = savings_goals[i].monthly_contribution
                   /\ savings_goals'[i].current_amount =
                         IF t = "savings_contribution" /\ g = <<i>>
                         THEN savings_goals[i].current_amount + a
                         ELSE savings_goals[i].current_amount]_vars

\* Of two stored goals the second received a contribution and the first none.
C9_Witness ==
    /\ Len(savings_goals) = 2
    /\ savings_goals[1].current_amount = 0
    /\ savings_goals[2].current_amount # 0
    /\ BagCardinality(transactions) = 1

\* C10: a confirmation of a negative amount answers with an error.
C10_NegativeLimitRaises ==
    [][\A l \in Limits :
          (l < 0 /\ confirm_daily_limit(l)) => response'.status = "error"]_vars

\* C12: when an expense dated today finds no daily_budgets row and makes
\* one, the row's allocated_limit is a value calculate_daily_limit returns
\* on the tables as they are after the request, the new expense included.
C12_AllocatedCountsExpense ==
    [][\A a \in TxAmounts, g \in GoalIds :
          (/\ add_transaction(today, a, "expense", g)
           /\ existing_budget(daily_budgets, today) = {})
          => C7_Newest.allocated_limit \in calculate_daily_limit']_vars

\* C13: of the pay periods that cover today, only one with the latest
\* start_date decides the result: every result is the rounded quotient of
\* that period's own amount, window and day count.
C13_LatestStartDecides ==
    \A v \in calculate_daily_limit \cup Rendered :
        (\E c \in BagToSet(pay_periods) : Covers(c)) =>
            \E p \in BagToSet(pay_periods) :
                /\ Covers(p)
                /\ \A q \in BagToSet(pay_periods) :
                      Covers(q) => q.start_date <= p.start_date
                /\ LET days == (p.end_date - today) + 1
                       available == p.amount - Expenses(p.start_date, today)
                                       - BillsDue(today, p.end_date)
                                       - Contributed(Len(savings_goals))
                       exact == IF available > 0 THEN available ELSE 0
                   IN 2 * Abs(v * days - exact) <= days

\* A suggestion was rendered while two periods of different start_date and
\* end_date cover today, an expense lying in the window of the earlier one
\* only.
C13_Witness ==
    /\ Rendered # {}
    /\ \E p, q \in BagToSet(pay_periods) :
          /\ Covers(p) /\ Covers(q)
          /\ p.start_date < q.start_date
          /\ p.end_date # q.end_date
          /\ Expenses(p.start_date, today) # Expenses(q.start_date, today)

\* C14: a daily_budgets row of today never has an effective limit
\* (confirmed_limit when set and not 0, else allocated_limit) of 0, and the
\* dashboard never answers with an error.
C14_EffectiveLimitNonZero ==
    /\ \A i \in DOMAIN daily_budgets :
          daily_budgets[i].date = today => effective_limit(daily_budgets[i]) # 0
    /\ response.status = "ok"

\* C15: a selected pay period has at least 1 day remaining and at most its
\* inclusive length.
C15_DaysRemainingInPeriod ==
    \A p \in current_period :
        /\ days_remaining(p) >= 1
        /\ days_remaining(p) <= (p.end_date - p.start_date) + 1

\* A suggestion was rendered in the middle of the selected period: fewer
\* days remain than the period has, and more than one.
C15_Witness ==
    /\ Rendered # {}
    /\ \E p \in current_period :
          /\ p.start_date < today
          /\ today < p.end_date
          /\ days_remaining(p) = 2

\* C11: however the statements of two requests interleave, neither the
\* committed daily_budgets table nor a connection's uncommitted view of it
\* holds two rows of one date.
C11_NoDuplicateDate ==
    LET one_per_date(budgets) ==
            \A i, j \in DOMAIN budgets :
                budgets[i].date = budgets[j].date => i = j
    IN /\ one_per_date(daily_budgets)
       /\ \A w \in Workers :
             in_transaction(connections[w])
                 => one_per_date(connections[w].budgets)

\* A request found no row of its date, and before its INSERT ran another
\* request committed a row of that date.
C11_Witness ==
    \E w \in Workers :
        /\ connections[w].pc = "confirm_write"
        /\ ~connections[w].existing
        /\ existing_budget(daily_budgets, connections[w].today) # {}

====
